---- MODULE Spec2Model ----
(***************************************************************************)
(* Model of github.com/gabe-lee/polyapp:                                   *)
(*   - the BufferZoneLL free list (polycommon.go): Insert and Aquire;      *)
(*   - the VertexFlags layout functions (polygraphics.go);                 *)
(*   - the 2D shape builders of GraphicsProvider (polygraphics.go).        *)
(*                                                                         *)
(* A BufferZoneLL is a singly linked chain reached from its head node.     *)
(* The chain is modelled as the sequence of the zones met along Next,      *)
(* list[1] being the head node (the receiver of the outermost call).  A    *)
(* node that is unlinked is no longer reachable and leaves the sequence.   *)
(***************************************************************************)
EXTENDS Integers, Sequences, FiniteSets

VARIABLES list, prev, op, acquired, ins, vf, layout, vf2, same, gcall, glog, gret

vars == <<list, prev, op, acquired, ins, vf, layout, vf2, same, gcall, glog, gret>>

(***************************************************************************)
(* Bounds of the model.                                                    *)
(***************************************************************************)
\* Size of the linear buffer whose free space the list tracks.
BufSize == 6

(***************************************************************************)
(* BufferZone                                                              *)
(***************************************************************************)
\* Start and End are uint32.  Every zone of the model lies inside the buffer
\* (0 <= Start <= End <= BufSize), so no uint32 operation below wraps; the
\* attribute sizes of a vertex sum to at most 80.
BufferZone(s, e) == [Start |-> s, End |-> e]

\* The zero value BufferZone{}.
ZeroZone == BufferZone(0, 0)

\* func (b BufferZone) Len() uint32 { return b.End - b.Start }
ZoneLen(b) == b.End - b.Start

\* math.CombineRangesIfOverlap(aStart, aEnd, bStart, bEnd), of the external
\* module github.com/gabe-lee/genmath (go.mod), whose body is not part of
\* this repository; Insert uses start and end only when overlap is true.
\* Modelled from the documented behaviour of Insert: the two ranges
\* overlap when they share a point or touch end to start; the combined
\* range runs from the smaller start to the larger end.
CombineRangesIfOverlap(aStart, aEnd, bStart, bEnd) ==
    IF aStart <= bEnd /\ bStart <= aEnd
    THEN [overlap |-> TRUE,
          start   |-> IF aStart <= bStart THEN aStart ELSE bStart,
          end     |-> IF aEnd >= bEnd THEN aEnd ELSE bEnd]
    ELSE [overlap |-> FALSE, start |-> aStart, end |-> aEnd]

\* The chain l with the node at position i unlinked.
Unlink(l, i) == SubSeq(l, 1, i - 1) \o SubSeq(l, i + 1, Len(l))

(***************************************************************************)
(* BufferZoneLL.Insert, called on the node at position i of chain l.       *)
(***************************************************************************)
\* Insert without the trailing merge of b with b.Next.
RECURSIVE InsertNodeNoNextMerge(_, _, _)
InsertNodeNoNextMerge(l, i, zone) ==
    LET c == CombineRangesIfOverlap(l[i].Start, l[i].End, zone.Start, zone.End)
    IN  IF c.overlap
        THEN [l EXCEPT ![i] = BufferZone(c.start, c.end)]
        ELSE IF i < Len(l)
             THEN InsertNodeNoNextMerge(l, i + 1, zone)
             ELSE Append(l, zone)

\* Insert that drops a zone no node of the chain can be combined with.
RECURSIVE InsertNodeNoAppend(_, _, _)
InsertNodeNoAppend(l, i, zone) ==
    LET c  == CombineRangesIfOverlap(l[i].Start, l[i].End, zone.Start, zone.End)
        l1 == IF c.overlap
              THEN [l EXCEPT ![i] = BufferZone(c.start, c.end)]
              ELSE IF i < Len(l)
                   THEN InsertNodeNoAppend(l, i + 1, zone)
                   ELSE l
    IN  IF i < Len(l1)
        THEN LET c2 == CombineRangesIfOverlap(l1[i].Start, l1[i].End,
                                              l1[i + 1].Start, l1[i + 1].End)
             IN  IF c2.overlap
                 THEN Unlink([l1 EXCEPT ![i] = BufferZone(c2.start, c2.end)], i + 1)
                 ELSE l1
        ELSE l1

RECURSIVE InsertNode(_, _, _)
InsertNode(l, i, zone) ==
    LET c  == CombineRangesIfOverlap(l[i].Start, l[i].End, zone.Start, zone.End)
        l1 == IF c.overlap
              THEN [l EXCEPT ![i] = BufferZone(c.start, c.end)]
              ELSE IF i < Len(l)
                   THEN InsertNode(l, i + 1, zone)
                   ELSE Append(l, zone)
    IN  IF i < Len(l1)
        THEN LET c2 == CombineRangesIfOverlap(l1[i].Start, l1[i].End,
                                              l1[i + 1].Start, l1[i + 1].End)
             IN  IF c2.overlap
                 THEN Unlink([l1 EXCEPT ![i] = BufferZone(c2.start, c2.end)], i + 1)
                 ELSE l1
        ELSE l1

(***************************************************************************)
(* BufferZoneLL.Aquire, called on the node at position i of chain l; the   *)
(* parameter last is nil exactly for the head (i = 1).  The result holds   *)
(* the returned zone, the chain after the call, and the position of the    *)
(* node carved from (0 when no node is large enough).                      *)
(***************************************************************************)
\* Aquire that forgets to move the Start of the zone it carves from.
RECURSIVE AquireNodeNoAdvance(_, _, _)
AquireNodeNoAdvance(l, i, zoneSize) ==
    IF zoneSize <= ZoneLen(l[i])
    THEN [zone |-> BufferZone(l[i].Start, l[i].Start + zoneSize),
          list |-> l, at |-> i]
    ELSE IF i < Len(l)
         THEN AquireNodeNoAdvance(l, i + 1, zoneSize)
         ELSE [zone |-> ZeroZone, list |-> l, at |-> 0]

\* Aquire that carves the zone off the End of the node instead of its Start.
RECURSIVE AquireNodeFromEnd(_, _, _)
AquireNodeFromEnd(l, i, zoneSize) ==
    IF zoneSize <= ZoneLen(l[i])
    THEN LET zone == BufferZone(l[i].End - zoneSize, l[i].End)
             l1   == [l EXCEPT ![i].End = zone.Start]
         IN  [zone |-> zone,
              list |-> IF ZoneLen(l1[i]) = 0 /\ i > 1 THEN Unlink(l1, i) ELSE l1,
              at   |-> i]
    ELSE IF i < Len(l)
         THEN AquireNodeFromEnd(l, i + 1, zoneSize)
         ELSE [zone |-> ZeroZone, list |-> l, at |-> 0]

\* Aquire that demands a zone strictly larger than the request.
RECURSIVE AquireNodeStrict(_, _, _)
AquireNodeStrict(l, i, zoneSize) ==
    IF zoneSize < ZoneLen(l[i])
    THEN LET zone == BufferZone(l[i].Start, l[i].Start + zoneSize)
             l1   == [l EXCEPT ![i].Start = zone.End]
         IN  [zone |-> zone,
              list |-> IF ZoneLen(l1[i]) = 0 /\ i > 1 THEN Unlink(l1, i) ELSE l1,
              at   |-> i]
    ELSE IF i < Len(l)
         THEN AquireNodeStrict(l, i + 1, zoneSize)
         ELSE [zone |-> ZeroZone, list |-> l, at |-> 0]

\* Aquire that unlinks an emptied node without looking at last.
RECURSIVE AquireNodeUnlinkAny(_, _, _)
AquireNodeUnlinkAny(l, i, zoneSize) ==
    IF zoneSize <= ZoneLen(l[i])
    THEN LET zone == BufferZone(l[i].Start, l[i].Start + zoneSize)
             l1   == [l EXCEPT ![i].Start = zone.End]
         IN  [zone |-> zone,
              list |-> IF ZoneLen(l1[i]) = 0 /\ Len(l1) > 1 THEN Unlink(l1, i) ELSE l1,
              at   |-> i]
    ELSE IF i < Len(l)
         THEN AquireNodeUnlinkAny(l, i + 1, zoneSize)
         ELSE [zone |-> ZeroZone, list |-> l, at |-> 0]

RECURSIVE AquireNode(_, _, _)
AquireNode(l, i, zoneSize) ==
    IF zoneSize <= ZoneLen(l[i])
    THEN LET zone == BufferZone(l[i].Start, l[i].Start + zoneSize)
             l1   == [l EXCEPT ![i].Start = zone.End]
         IN  [zone |-> zone,
              list |-> IF ZoneLen(l1[i]) = 0 /\ i > 1 THEN Unlink(l1, i) ELSE l1,
              at   |-> i]
    ELSE IF i < Len(l)
         THEN AquireNode(l, i + 1, zoneSize)
         ELSE [zone |-> ZeroZone, list |-> l, at |-> 0]

(***************************************************************************)
(* VertexFlags (uint16) and the layout functions.                          *)
(***************************************************************************)
\* type VertexFlags uint16
FlagBits == 16
AllFlags == 0 .. (2^FlagBits - 1)

Pos3D     == 1
PosMask   == 1
IdxMask   == 2
HasTex    == 4
TexMask   == 4
Col8      == 8
Col16     == 16
Col24     == 24
Col32     == 32
Col48     == 40
Col64     == 48
ColF      == 56
ColFA     == 64
ColMask   == 120
Ex32      == 128
Ex64      == 256
Ex96      == 384
Ex128     == 512
Ex192     == 640
Ex224     == 768
Ex256     == 896
ExMask    == 896
DrawMask  == 3072
CamMask   == 12288
Norms     == 16384
NormsMask == 16384

\* The Go operator & on unsigned integers.
RECURSIVE BitAnd(_, _)
BitAnd(a, b) ==
    IF a = 0 \/ b = 0
    THEN 0
    ELSE (a % 2) * (b % 2) + 2 * BitAnd(a \div 2, b \div 2)

\* The Go operator | on unsigned integers.
RECURSIVE BitOr(_, _)
BitOr(a, b) ==
    IF a = 0 THEN b
    ELSE IF b = 0 THEN a
    ELSE ((a % 2) + (b % 2) - (a % 2) * (b % 2)) + 2 * BitOr(a \div 2, b \div 2)

VertexAttributeMask ==
    BitOr(PosMask, BitOr(ColMask, BitOr(IdxMask, BitOr(TexMask, BitOr(ExMask, NormsMask)))))
UniformAttributeMask == BitOr(CamMask, DrawMask)

\* SameAttributes that compares the whole values, without the mask.
SameAttributesNoMask(f, other) == f = other

SameAttributes(f, other) == BitAnd(f, VertexAttributeMask) = BitAnd(other, VertexAttributeMask)
SameUniforms(f, other) == BitAnd(f, UniformAttributeMask) = BitAnd(other, UniformAttributeMask)

PositionOffset(f) == 0
\* PositionSize that also gives 3D positions to a 3D camera (Cam3D = 8192).
PositionSizeByCamera(f) ==
    IF BitAnd(f, PosMask) = Pos3D \/ BitAnd(f, CamMask) = 8192 THEN 12 ELSE 8

PositionSize(f) == IF BitAnd(f, PosMask) = Pos3D THEN 12 ELSE 8

NormalOffset(f) == PositionSize(f)
\* NormalSize that does not look at the position space.
NormalSizeAlways3D(f) == IF BitAnd(f, NormsMask) = NormsMask THEN 12 ELSE 0

NormalSize(f) ==
    IF BitAnd(f, NormsMask) = NormsMask
    THEN IF BitAnd(f, PosMask) = Pos3D THEN 12 ELSE 8
    ELSE 0

UVOffset(f) == NormalOffset(f) + NormalSize(f)
UVSize(f) == IF BitAnd(f, TexMask) = HasTex THEN 8 ELSE 0

\* ColorOffset that leaves out the size of the UV attribute.
ColorOffsetNoUV(f) == UVOffset(f)

ColorOffset(f) == UVOffset(f) + UVSize(f)
\* ColorSize with the sizes of Col48 and Col64 exchanged.
ColorSizeSwapped(f) ==
    LET c == BitAnd(f, ColMask)
    IN  IF c = ColFA THEN 16
        ELSE IF c = ColF THEN 12
        ELSE IF c = Col64 THEN 6
        ELSE IF c = Col48 THEN 8
        ELSE IF c = Col32 THEN 4
        ELSE IF c = Col24 THEN 3
        ELSE IF c = Col16 THEN 2
        ELSE IF c = Col8 THEN 1
        ELSE 0

ColorSize(f) ==
    LET c == BitAnd(f, ColMask)
    IN  IF c = ColFA THEN 16
        ELSE IF c = ColF THEN 12
        ELSE IF c = Col64 THEN 8
        ELSE IF c = Col48 THEN 6
        ELSE IF c = Col32 THEN 4
        ELSE IF c = Col24 THEN 3
        ELSE IF c = Col16 THEN 2
        ELSE IF c = Col8 THEN 1
        ELSE 0

ExOffset(f) == ColorOffset(f) + ColorSize(f)
\* ExSize that counts one block per code of the field: Ex192 as 5 blocks.
ExSizeByCode(f) == 4 * (BitAnd(f, ExMask) \div Ex32)

ExSize(f) ==
    LET x == BitAnd(f, ExMask)
    IN  IF x = Ex256 THEN 32
        ELSE IF x = Ex224 THEN 28
        ELSE IF x = Ex192 THEN 24
        ELSE IF x = Ex128 THEN 16
        ELSE IF x = Ex96 THEN 12
        ELSE IF x = Ex64 THEN 8
        ELSE IF x = Ex32 THEN 4
        ELSE 0

\* Stride that leaves the normals out of the sum.
StrideNoNormals(f) ==
    PositionSize(f) + UVSize(f) + ColorSize(f) + ExSize(f)

Stride(f) ==
    PositionSize(f) + NormalSize(f) + UVSize(f) + ColorSize(f) + ExSize(f)

(***************************************************************************)
(* State.                                                                  *)
(*   list      the zones along the Next chain of the free list             *)
(*   prev      the chain before the last call                              *)
(*   op        the last call: its name, argument, result, node carved from *)
(*   acquired  the non-empty zones Aquire returned since the last Insert   *)
(*   ins       the zones inserted so far (two-zone scenario only)          *)
(*   vf        a VertexFlags value                                         *)
(*   layout    the sizes, offsets and stride computed for vf               *)
(*   vf2       a second VertexFlags value, compared with vf                *)
(*   same      the results of SameAttributes on vf and vf2                 *)
(*   gcall     the last GraphicsProvider call and its arguments            *)
(*   glog      the backend calls made by that call, in order               *)
(*   gret      what that call returned                                     *)
(***************************************************************************)
Zones == {BufferZone(s, e) : <<s, e>> \in {p \in (0 .. BufSize) \X (0 .. BufSize) : p[1] < p[2]}}

\* The buffer indexes a zone covers.
Cells(z) == {k \in 0 .. BufSize : z.Start <= k /\ k < z.End}
Overlaps(a, b) == Cells(a) \cap Cells(b) # {}
\* Adjacent or overlapping: the ranges share an index or meet end to start.
Touches(a, b) == a.Start <= b.End /\ b.Start <= a.End

NoOp == [name |-> "none", zone |-> ZeroZone, size |-> 0, result |-> ZeroZone, at |-> 0]
NoLayout == [done |-> FALSE,
             PositionOffset |-> 0, PositionSize |-> 0,
             NormalOffset |-> 0, NormalSize |-> 0,
             UVOffset |-> 0, UVSize |-> 0,
             ColorOffset |-> 0, ColorSize |-> 0,
             ExOffset |-> 0, ExSize |-> 0, Stride |-> 0]

\* The values the draw-mode and camera bits (bits 10 to 13) can take.
UniformCodes == 0 .. 15
NoSame == [done |-> FALSE, aa |-> FALSE, bb |-> FALSE, ab |-> FALSE, ba |-> FALSE,
           aChanged |-> [x \in UniformCodes |-> FALSE],
           bChanged |-> [x \in UniformCodes |-> FALSE]]

\* No flags value under study.
FlagsIdle ==
    /\ vf = 0
    /\ layout = NoLayout
    /\ vf2 = 0
    /\ same = NoSame

\* No GraphicsProvider call made yet.
NoCall == [name |-> "none"]
NoRet == [name |-> "none"]
GfxIdle ==
    /\ gcall = NoCall
    /\ glog = <<>>
    /\ gret = NoRet

\* A free list made of one free zone covering the whole buffer.
Init ==
    /\ list = <<BufferZone(0, BufSize)>>
    /\ prev = list
    /\ op = NoOp
    /\ acquired = {}
    /\ ins = <<>>
    /\ FlagsIdle
    /\ GfxIdle

\* head.Insert(zone), zone disjoint from every zone of the list.
Insert(zone) ==
    /\ \A i \in 1 .. Len(list) : ~Overlaps(list[i], zone)
    /\ list' = InsertNode(list, 1, zone)
    /\ prev' = list
    /\ op' = [name |-> "Insert", zone |-> zone, size |-> 0, result |-> ZeroZone, at |-> 0]
    /\ acquired' = {}
    /\ UNCHANGED <<ins, vf, layout, vf2, same, gcall, glog, gret>>

\* head.Aquire(zoneSize, nil)
Aquire(zoneSize) ==
    LET r == AquireNode(list, 1, zoneSize)
    IN  /\ list' = r.list
        /\ prev' = list
        /\ op' = [name |-> "Aquire", zone |-> ZeroZone, size |-> zoneSize,
                  result |-> r.zone, at |-> r.at]
        /\ acquired' = IF ZoneLen(r.zone) > 0 THEN acquired \cup {r.zone} ELSE acquired
        /\ UNCHANGED <<ins, vf, layout, vf2, same, gcall, glog, gret>>

Next ==
    \/ \E zone \in Zones : Insert(zone)
    \/ \E zoneSize \in 0 .. BufSize : Aquire(zoneSize)

Spec == Init /\ [][Next]_vars

(***************************************************************************)
(* The free list with its clients: a client acquires zones of at least one *)
(* element and releases, by Insert, whole zones it holds.  acquired is the  *)
(* set of the zones handed out and not yet released.                       *)
(***************************************************************************)
InitHeld ==
    /\ list = <<BufferZone(0, BufSize)>>
    /\ prev = list
    /\ op = NoOp
    /\ acquired = {}
    /\ ins = <<>>
    /\ FlagsIdle
    /\ GfxIdle

\* zone := head.Aquire(zoneSize, nil); a zero-length result is not held.
AquireHeld(zoneSize) ==
    LET r == AquireNode(list, 1, zoneSize)
    IN  /\ list' = r.list
        /\ prev' = list
        /\ op' = [name |-> "Aquire", zone |-> ZeroZone, size |-> zoneSize,
                  result |-> r.zone, at |-> r.at]
        /\ acquired' = IF ZoneLen(r.zone) > 0 THEN acquired \cup {r.zone} ELSE acquired
        /\ UNCHANGED <<ins, vf, layout, vf2, same, gcall, glog, gret>>

\* head.Insert(zone) of a zone held by the client.
Release(zone) ==
    /\ zone \in acquired
    /\ list' = InsertNode(list, 1, zone)
    /\ prev' = list
    /\ op' = [name |-> "Insert", zone |-> zone, size |-> 0, result |-> ZeroZone, at |-> 0]
    /\ acquired' = acquired \ {zone}
    /\ UNCHANGED <<ins, vf, layout, vf2, same, gcall, glog, gret>>

NextHeld ==
    \/ \E zoneSize \in 1 .. BufSize : AquireHeld(zoneSize)
    \/ \E zone \in Zones : Release(zone)

SpecHeld == InitHeld /\ [][NextHeld]_vars

(***************************************************************************)
(* Two zones inserted into an empty free list: the zero value of           *)
(* BufferZoneLL, a head node [0,0) with a nil Next.                        *)
(***************************************************************************)
InitPair ==
    /\ list = <<ZeroZone>>
    /\ prev = list
    /\ op = NoOp
    /\ acquired = {}
    /\ ins = <<>>
    /\ FlagsIdle
    /\ GfxIdle

\* head.Insert(zone): the second zone is adjacent to or overlaps the first.
InsertPair(zone) ==
    /\ Len(ins) < 2
    /\ Len(ins) = 1 => Touches(ins[1], zone)
    /\ list' = InsertNode(list, 1, zone)
    /\ prev' = list
    /\ op' = [name |-> "Insert", zone |-> zone, size |-> 0, result |-> ZeroZone, at |-> 0]
    /\ ins' = Append(ins, zone)
    /\ UNCHANGED <<acquired, vf, layout, vf2, same, gcall, glog, gret>>

NextPair == \E zone \in Zones : InsertPair(zone)

SpecPair == InitPair /\ [][NextPair]_vars

(***************************************************************************)
(* The layout of every VertexFlags value.                                  *)
(***************************************************************************)
InitFlags ==
    /\ list = <<ZeroZone>>
    /\ prev = list
    /\ op = NoOp
    /\ acquired = {}
    /\ ins = <<>>
    /\ vf \in AllFlags
    /\ layout = NoLayout
    /\ vf2 = 0
    /\ same = NoSame
    /\ GfxIdle

ComputeLayout ==
    /\ ~layout.done
    /\ layout' = [done |-> TRUE,
                  PositionOffset |-> PositionOffset(vf), PositionSize |-> PositionSize(vf),
                  NormalOffset |-> NormalOffset(vf), NormalSize |-> NormalSize(vf),
                  UVOffset |-> UVOffset(vf), UVSize |-> UVSize(vf),
                  ColorOffset |-> ColorOffset(vf), ColorSize |-> ColorSize(vf),
                  ExOffset |-> ExOffset(vf), ExSize |-> ExSize(vf),
                  Stride |-> Stride(vf)]
    /\ UNCHANGED <<list, prev, op, acquired, ins, vf, vf2, same, gcall, glog, gret>>

NextFlags == ComputeLayout

SpecFlags == InitFlags /\ [][NextFlags]_vars

(***************************************************************************)
(* SameAttributes on pairs of VertexFlags values.  The first value takes   *)
(* every combination of the one-bit fields and of the draw-mode and camera *)
(* bits, with a sample of colour and extra-data codes; the second is the   *)
(* first with no bit, any one of the 16 bits, or the draw-mode and camera  *)
(* bits changed.                                                           *)
(***************************************************************************)
\* The Go operator ^ on unsigned integers.
RECURSIVE BitXor(_, _)
BitXor(a, b) ==
    IF a = 0 THEN b
    ELSE IF b = 0 THEN a
    ELSE ((a + b) % 2) + 2 * BitXor(a \div 2, b \div 2)

PairFlags ==
    {p + i + t + c + x + d + m + n :
        p \in {0, Pos3D}, i \in {0, IdxMask}, t \in {0, HasTex},
        c \in {0, Col32, ColMask}, x \in {0, ExMask},
        d \in {0, 1024, 2048, DrawMask}, m \in {0, 4096, 8192, CamMask},
        n \in {0, Norms}}

Deltas == {0} \cup {2^k : k \in 0 .. (FlagBits - 1)} \cup {DrawMask, CamMask, DrawMask + CamMask}

\* The flags value f with its draw-mode and camera bits replaced by code x.
SetUniformBits(f, x) == f - BitAnd(f, UniformAttributeMask) + 1024 * x

InitSame ==
    /\ list = <<ZeroZone>>
    /\ prev = list
    /\ op = NoOp
    /\ acquired = {}
    /\ ins = <<>>
    /\ vf \in PairFlags
    /\ vf2 \in {BitXor(vf, d) : d \in Deltas}
    /\ layout = NoLayout
    /\ same = NoSame
    /\ GfxIdle

CompareAttributes ==
    /\ ~same.done
    /\ same' = [done |-> TRUE,
                aa |-> SameAttributes(vf, vf),
                bb |-> SameAttributes(vf2, vf2),
                ab |-> SameAttributes(vf, vf2),
                ba |-> SameAttributes(vf2, vf),
                aChanged |-> [x \in UniformCodes |-> SameAttributes(SetUniformBits(vf, x), vf2)],
                bChanged |-> [x \in UniformCodes |-> SameAttributes(vf, SetUniformBits(vf2, x))]]
    /\ UNCHANGED <<list, prev, op, acquired, ins, vf, layout, vf2, gcall, glog, gret>>

NextSame == CompareAttributes

SpecSame == InitSame /\ [][NextSame]_vars

(***************************************************************************)
(* The layouts of pairs of VertexFlags values.  The second value is the    *)
(* first with no bit, any one bit, or any combination of the draw-mode,    *)
(* camera and unused (bit 15) bits changed.                                *)
(***************************************************************************)
\* The five sizes, the five offsets and the stride of a flags value.
LayoutOf(f) ==
    [PositionOffset |-> PositionOffset(f), PositionSize |-> PositionSize(f),
     NormalOffset |-> NormalOffset(f), NormalSize |-> NormalSize(f),
     UVOffset |-> UVOffset(f), UVSize |-> UVSize(f),
     ColorOffset |-> ColorOffset(f), ColorSize |-> ColorSize(f),
     ExOffset |-> ExOffset(f), ExSize |-> ExSize(f),
     Stride |-> Stride(f)]

\* The changes of the bits outside VertexAttributeMask: bits 10 to 13 and
\* bit 15 (_un4).
UniformDeltas == {1024 * x + 32768 * u : x \in UniformCodes, u \in {0, 1}}

InitLayouts ==
    /\ list = <<ZeroZone>>
    /\ prev = list
    /\ op = NoOp
    /\ acquired = {}
    /\ ins = <<>>
    /\ vf \in PairFlags
    /\ vf2 \in {BitXor(vf, d) : d \in Deltas \cup UniformDeltas}
    /\ layout = NoLayout
    /\ same = NoSame
    /\ GfxIdle

CompareLayouts ==
    /\ ~layout.done
    /\ layout' = [done |-> TRUE, same |-> SameAttributes(vf, vf2),
                  a |-> LayoutOf(vf), b |-> LayoutOf(vf2)]
    /\ UNCHANGED <<list, prev, op, acquired, ins, vf, vf2, same, gcall, glog, gret>>

NextLayouts == CompareLayouts

SpecLayouts == InitLayouts /\ [][NextLayouts]_vars

(***************************************************************************)
(* GraphicsProvider: the 2D shape builders over the backend interface.     *)
(*                                                                         *)
(* The backend (GraphicsInterface) is the environment: AllocateShapeInBatch *)
(* succeeds or fails, and UpdateVertexInShape fails for the vertex numbers *)
(* in the set fail.  Positions, UVs, colours and extras are symbolic       *)
(* values <<name, index>>; normals are integer vectors.                    *)
(***************************************************************************)
\* Largest number of sides of a polygon or ring.
MaxSides == 6

\* utils.NewDeepError(msg), of the external module genutils: a new error
\* (the builders reset IsErr to false right after creating their result).
NewDeepError(msg) == [IsErr |-> TRUE, Msg |-> msg, Children |-> <<>>]

\* dErr := utils.NewDeepError(tag); dErr.IsErr = false
NonError(tag) == [NewDeepError(tag) EXCEPT !.IsErr = FALSE]

\* d.AddChildDeepError(child), of genutils: an error child is recorded and
\* makes d an error; a non-error child changes nothing.
AddChildDeepError(d, child) ==
    IF child.IsErr
    THEN [d EXCEPT !.IsErr = TRUE, !.Children = Append(@, child)]
    ELSE d

\* d.AddChildDeepError applied to each of errs in turn.
RECURSIVE AddChildren(_, _)
AddChildren(d, errs) ==
    IF errs = <<>>
    THEN d
    ELSE AddChildren(AddChildDeepError(d, Head(errs)), Tail(errs))

\* What the backend returns.
BackendOk == [IsErr |-> FALSE, Msg |-> <<"backend", 0>>, Children |-> <<>>]
BackendAllocError ==
    [IsErr |-> TRUE, Msg |-> <<"backend: AllocateShapeInBatch", 0>>, Children |-> <<>>]
BackendWriteError(vertNumber) ==
    [IsErr |-> TRUE, Msg |-> <<"backend: UpdateVertexInShape", vertNumber>>, Children |-> <<>>]

\* type BatchShape struct
BatchShape(batchID, indexZone, vertexZone, indexCount, vertexCount) ==
    [BatchID |-> batchID, IndexZone |-> indexZone, VertexZone |-> vertexZone,
     IndexCount |-> indexCount, VertexCount |-> vertexCount]

\* The zero value BatchShape{}.
ZeroShape == BatchShape(0, ZeroZone, ZeroZone, 0, 0)

\* func (b BatchShape) IdxLen() / VertLen()
IdxLen(b) == ZoneLen(b.IndexZone)
VertLen(b) == ZoneLen(b.VertexZone)

\* type ShapePrototype struct
ShapePrototype(vertCount, indexCount, indexes) ==
    [VertCount |-> vertCount, IndexCount |-> indexCount, Indexes |-> indexes]

\* type Vertex struct
Vertex(pos, norm, uv, color, extra) ==
    [Pos |-> pos, Norm |-> norm, UV |-> uv, Color |-> color, Extra |-> extra]

\* A vertex supplied by the caller, with a normal of the caller's choosing.
CallerNorm == <<1, 2, 3>>
CallerVertex(name) ==
    Vertex(<<name, 0>>, CallerNorm, <<name, 1>>, <<name, 2>>, <<name, 3>>)

\* Vec3{0, 0, -g.XRightYUpZAway()[2]}
FlatNorm(z) == <<0, 0, 0 - z>>

\* The calls g.UpdateVertexInShape(shape, n, v) for each [n, v] of verts, in
\* order, each result added to the DeepError tagged tag.
\* Variant that returns at the first failing write.
WriteVerticesStopAtFirst(shape, tag, verts, fail) ==
    LET bad  == {k \in 1 .. Len(verts) : verts[k].n \in fail}
        last == IF bad = {} THEN Len(verts)
                ELSE CHOOSE k \in bad : \A j \in bad : k <= j
        log  == [k \in 1 .. last |->
                    [fn |-> "UpdateVertexInShape", shape |-> shape,
                     vertNumber |-> verts[k].n, vertex |-> verts[k].v,
                     err |-> IF verts[k].n \in fail
                             THEN BackendWriteError(verts[k].n) ELSE BackendOk]]
    IN  [log |-> log,
         err |-> AddChildren(NonError(tag), [k \in 1 .. last |-> log[k].err])]

WriteVertices(shape, tag, verts, fail) ==
    LET log == [k \in 1 .. Len(verts) |->
                   [fn |-> "UpdateVertexInShape", shape |-> shape,
                    vertNumber |-> verts[k].n, vertex |-> verts[k].v,
                    err |-> IF verts[k].n \in fail
                            THEN BackendWriteError(verts[k].n) ELSE BackendOk]]
    IN  [log |-> log,
         err |-> AddChildren(NonError(tag), [k \in 1 .. Len(verts) |-> log[k].err])]

\* A dimension mismatch: an error, and no backend call.
Rejected(msg) == [log |-> <<>>, err |-> NewDeepError(msg)]

\* UpdateLine2D that rejects only when both counts are wrong.
UpdateLine2DBothWrong(shape, a, b, z, fail) ==
    IF shape.IndexCount # 6 /\ shape.VertexCount # 4
    THEN Rejected("[PolyApp] UpdateLine2D(): batch shape provided does not have required dimensions for a line")
    ELSE LET a0 == [a EXCEPT !.Norm = FlatNorm(z)]
             b0 == [b EXCEPT !.Norm = a0.Norm]
         IN  WriteVertices(shape, "[PolyApp] UpdateLine2D():",
                 << [n |-> 0, v |-> [a0 EXCEPT !.Pos = <<"l1.A", 0>>, !.UV = <<"u1.A", 0>>]],
                    [n |-> 1, v |-> [a0 EXCEPT !.Pos = <<"l2.A", 0>>, !.UV = <<"u2.A", 0>>]],
                    [n |-> 2, v |-> [b0 EXCEPT !.Pos = <<"l1.B", 0>>, !.UV = <<"u1.B", 0>>]],
                    [n |-> 3, v |-> [b0 EXCEPT !.Pos = <<"l2.B", 0>>, !.UV = <<"u2.B", 0>>]] >>,
                 fail)

\* l1, l2 and u1, u2 are the lines Line2D.PerpLines returns (genvecs).
UpdateLine2D(shape, a, b, z, fail) ==
    IF shape.IndexCount # 6 \/ shape.VertexCount # 4
    THEN Rejected("[PolyApp] UpdateLine2D(): batch shape provided does not have required dimensions for a line")
    ELSE LET a0 == [a EXCEPT !.Norm = FlatNorm(z)]
             b0 == [b EXCEPT !.Norm = a0.Norm]
         IN  WriteVertices(shape, "[PolyApp] UpdateLine2D():",
                 << [n |-> 0, v |-> [a0 EXCEPT !.Pos = <<"l1.A", 0>>, !.UV = <<"u1.A", 0>>]],
                    [n |-> 1, v |-> [a0 EXCEPT !.Pos = <<"l2.A", 0>>, !.UV = <<"u2.A", 0>>]],
                    [n |-> 2, v |-> [b0 EXCEPT !.Pos = <<"l1.B", 0>>, !.UV = <<"u1.B", 0>>]],
                    [n |-> 3, v |-> [b0 EXCEPT !.Pos = <<"l2.B", 0>>, !.UV = <<"u2.B", 0>>]] >>,
                 fail)

UpdateTriangle2D(shape, a, b, c, fail) ==
    IF shape.VertexCount # 3 \/ shape.IndexCount # 3
    THEN Rejected("[PolyApp] UpdateTriangle2D(): batch slice provided does not have required dimensions for a triangle")
    ELSE WriteVertices(shape, "[PolyApp] UpdateTriangle2D():",
             << [n |-> 0, v |-> a], [n |-> 1, v |-> b], [n |-> 2, v |-> c] >>, fail)

\* len(geom.PointsOnCircle(rotation, radius, center, sides)), of gengeom.
PointsOnCircleLen(sides) == sides

\* len(geom.PointsOnRing(rotation, inner, outer, center, sides)), of gengeom:
\* an inner and an outer point for each side.
PointsOnRingLen(sides) == 2 * sides

\* UpdateRegularPolygon2D that writes point i at local index i.
UpdateRegularPolygon2DNoOffset(shape, center, sides, z, fail) ==
    IF shape.VertexCount # sides + 1 \/ shape.IndexCount # sides * 3
    THEN Rejected("[PolyApp] UpdateRegularPolygon2D(): batch shape provided does not have required dimensions for a polygon of specified sides")
    ELSE LET c0 == [center EXCEPT !.Norm = FlatNorm(z)]
         IN  WriteVertices(shape, "[PolyApp] UpdateRegularPolygon2D():",
                 << [n |-> 0, v |-> c0] >> \o
                 [k \in 1 .. PointsOnCircleLen(sides) |->
                     [n |-> k - 1,
                      v |-> [c0 EXCEPT !.Pos = <<"points", k - 1>>, !.UV = <<"uvs", k - 1>>]]],
                 fail)

UpdateRegularPolygon2D(shape, center, sides, z, fail) ==
    IF shape.VertexCount # sides + 1 \/ shape.IndexCount # sides * 3
    THEN Rejected("[PolyApp] UpdateRegularPolygon2D(): batch shape provided does not have required dimensions for a polygon of specified sides")
    ELSE LET c0 == [center EXCEPT !.Norm = FlatNorm(z)]
         IN  WriteVertices(shape, "[PolyApp] UpdateRegularPolygon2D():",
                 << [n |-> 0, v |-> c0] >> \o
                 [k \in 1 .. PointsOnCircleLen(sides) |->
                     [n |-> (k - 1) + 1,
                      v |-> [c0 EXCEPT !.Pos = <<"points", k - 1>>, !.UV = <<"uvs", k - 1>>]]],
                 fail)

UpdateRegularPolygonRing2D(shape, center, sides, z, fail) ==
    IF shape.VertexCount # sides * 2 \/ shape.IndexCount # sides * 6
    THEN Rejected("[PolyApp] UpdateRegularPolygonRing2D(): batch shape provided does not have required dimensions for a polygon ring of specified sides")
    ELSE LET c0 == [center EXCEPT !.Norm = FlatNorm(z)]
         IN  WriteVertices(shape, "[PolyApp] UpdateRegularPolygonRing2D():",
                 [k \in 1 .. PointsOnRingLen(sides) |->
                     [n |-> k - 1,
                      v |-> [c0 EXCEPT !.Pos = <<"points", k - 1>>, !.UV = <<"uvs", k - 1>>]]],
                 fail)

\* UpdateQuad2D with corners C and D written at each other's index.
UpdateQuad2DSwapped(shape, z, fail) ==
    IF shape.VertexCount # 4 \/ shape.IndexCount # 6
    THEN Rejected("[PolyApp] UpdateQuad2D(): batch shape provided does not have required dimensions for a quad")
    ELSE LET v == Vertex(<<"quad.A", 0>>, FlatNorm(z), <<"uvQuad.A", 0>>, <<"color", 0>>, <<"extra", 0>>)
         IN  WriteVertices(shape, "[PolyApp] UpdateQuad2D():",
                 << [n |-> 0, v |-> v],
                    [n |-> 1, v |-> [v EXCEPT !.Pos = <<"quad.B", 0>>, !.UV = <<"uvQuad.B", 0>>]],
                    [n |-> 2, v |-> [v EXCEPT !.Pos = <<"quad.D", 0>>, !.UV = <<"uvQuad.D", 0>>]],
                    [n |-> 3, v |-> [v EXCEPT !.Pos = <<"quad.C", 0>>, !.UV = <<"uvQuad.C", 0>>]] >>,
                 fail)

UpdateQuad2D(shape, z, fail) ==
    IF shape.VertexCount # 4 \/ shape.IndexCount # 6
    THEN Rejected("[PolyApp] UpdateQuad2D(): batch shape provided does not have required dimensions for a quad")
    ELSE LET v == Vertex(<<"quad.A", 0>>, FlatNorm(z), <<"uvQuad.A", 0>>, <<"color", 0>>, <<"extra", 0>>)
         IN  WriteVertices(shape, "[PolyApp] UpdateQuad2D():",
                 << [n |-> 0, v |-> v],
                    [n |-> 1, v |-> [v EXCEPT !.Pos = <<"quad.B", 0>>, !.UV = <<"uvQuad.B", 0>>]],
                    [n |-> 2, v |-> [v EXCEPT !.Pos = <<"quad.C", 0>>, !.UV = <<"uvQuad.C", 0>>]],
                    [n |-> 3, v |-> [v EXCEPT !.Pos = <<"quad.D", 0>>, !.UV = <<"uvQuad.D", 0>>]] >>,
                 fail)

UpdateQuadOutline2D(shape, z, fail) ==
    IF shape.VertexCount # 8 \/ shape.IndexCount # 24
    THEN Rejected("[PolyApp] UpdateQuadOutline2D(): batch shape provided does not have required dimensions for a quad outline")
    ELSE LET v  == Vertex(<<"quadInner.A", 0>>, FlatNorm(z), <<"uvQuadInner.A", 0>>, <<"color", 0>>, <<"extra", 0>>)
             iB == [v EXCEPT !.Pos = <<"quadInner.B", 0>>, !.UV = <<"uvQuadInner.B", 0>>]
             oB == [v EXCEPT !.Pos = <<"quadOuter.B", 0>>, !.UV = <<"uvQuadOuter.B", 0>>]
         IN  WriteVertices(shape, "[PolyApp] UpdateQuadOutline2D():",
                 << [n |-> 0, v |-> v],
                    [n |-> 1, v |-> iB], [n |-> 2, v |-> iB], [n |-> 3, v |-> iB],
                    [n |-> 4, v |-> oB], [n |-> 5, v |-> oB], [n |-> 6, v |-> oB],
                    [n |-> 7, v |-> oB] >>,
                 fail)

\* g.AllocateShapeInBatch(batchID, proto) of the backend: on success a
\* handle whose counts and zone lengths are those of the prototype, placed at
\* base in the batch buffers; on failure the zero handle and an error.
AllocateShapeInBatch(batchID, proto, ok, base) ==
    IF ok
    THEN [shape |-> BatchShape(batchID,
                        BufferZone(base, base + proto.IndexCount),
                        BufferZone(base, base + proto.VertCount),
                        proto.IndexCount, proto.VertCount),
          err   |-> BackendOk]
    ELSE [shape |-> ZeroShape, err |-> BackendAllocError]

\* The log entry of one allocation call.
AllocCall(batchID, proto, alloc) ==
    [fn |-> "AllocateShapeInBatch", batchID |-> batchID, prototype |-> proto,
     shape |-> alloc.shape, err |-> alloc.err]

AddLine2D(batchID, a, b, z, ok, base, fail) ==
    LET dErr  == NonError("[PolyApp] AddLine2D():")
        proto == ShapePrototype(4, 6, <<0, 1, 2, 0, 3, 2>>)
        alloc == AllocateShapeInBatch(batchID, proto, ok, base)
        u     == UpdateLine2D(alloc.shape, a, b, z, fail)
    IN  IF alloc.err.IsErr
        THEN [log |-> <<AllocCall(batchID, proto, alloc)>>,
              shape |-> alloc.shape, err |-> alloc.err]
        ELSE [log |-> <<AllocCall(batchID, proto, alloc)>> \o u.log,
              shape |-> alloc.shape, err |-> AddChildDeepError(dErr, u.err)]

AddTriangle2D(batchID, a, b, c, z, ok, base, fail) ==
    LET dErr  == NonError("[PolyApp] AddTriangle2D():")
        proto == ShapePrototype(3, 3, <<0, 1, 2>>)
        alloc == AllocateShapeInBatch(batchID, proto, ok, base)
        u     == UpdateTriangle2D(alloc.shape,
                     [a EXCEPT !.Norm = FlatNorm(z)],
                     [b EXCEPT !.Norm = FlatNorm(z)],
                     [c EXCEPT !.Norm = FlatNorm(z)], fail)
    IN  IF alloc.err.IsErr
        THEN [log |-> <<AllocCall(batchID, proto, alloc)>>,
              shape |-> alloc.shape, err |-> AddChildDeepError(dErr, alloc.err)]
        ELSE [log |-> <<AllocCall(batchID, proto, alloc)>> \o u.log,
              shape |-> alloc.shape, err |-> AddChildDeepError(alloc.err, u.err)]

\* for i, v := 0, 1; i < iCount; i, v = i+3, v+1 { idx[i], idx[i+1], idx[i+2] = 0, v, v+1 }
\* (idx is 0-based in the source and 1-based here).
RECURSIVE PolygonLoop(_, _, _, _)
PolygonLoop(idx, i, v, iCount) ==
    IF i < iCount
    THEN PolygonLoop([idx EXCEPT ![i + 1] = 0, ![i + 2] = v, ![i + 3] = v + 1],
                     i + 3, v + 1, iCount)
    ELSE idx

\* The prototype whose last triangle is not closed back to vertex 1.
PolygonPrototypeNoClose(sides) ==
    LET iCount == 3 * sides
        vCount == sides + 1
        idx    == PolygonLoop([j \in 1 .. iCount |-> 0], 0, 1, iCount)
    IN  ShapePrototype(vCount, iCount, idx)

\* The prototype with one vertex too few.
PolygonPrototypeNoCenter(sides) ==
    LET iCount == 3 * sides
        vCount == sides
        idx    == PolygonLoop([j \in 1 .. iCount |-> 0], 0, 1, iCount)
    IN  ShapePrototype(vCount, iCount, [idx EXCEPT ![(iCount - 1) + 1] = 1])

\* The prototype AddRegularPolygon2D builds.
PolygonPrototype(sides) ==
    LET iCount == 3 * sides
        vCount == sides + 1
        idx    == PolygonLoop([j \in 1 .. iCount |-> 0], 0, 1, iCount)
    IN  ShapePrototype(vCount, iCount, [idx EXCEPT ![(iCount - 1) + 1] = 1])

AddRegularPolygon2D(batchID, center, sides, z, ok, base, fail) ==
    LET dErr  == NonError("[PolyApp] AddRegularPolygon2D():")
        proto == PolygonPrototype(sides)
        alloc == AllocateShapeInBatch(batchID, proto, ok, base)
        u     == UpdateRegularPolygon2D(alloc.shape, center, sides, z, fail)
    IN  IF alloc.err.IsErr
        THEN [log |-> <<AllocCall(batchID, proto, alloc)>>,
              shape |-> alloc.shape, err |-> AddChildDeepError(dErr, alloc.err)]
        ELSE [log |-> <<AllocCall(batchID, proto, alloc)>> \o u.log,
              shape |-> alloc.shape, err |-> AddChildDeepError(dErr, u.err)]

\* for i, v := 0, 0; i < iCount; i, v = i+6, v+2 { idx[i..i+5] = v, v+1, v+2, v, v+3, v+2 }
RECURSIVE RingLoop(_, _, _, _)
RingLoop(idx, i, v, iCount) ==
    IF i < iCount
    THEN RingLoop([idx EXCEPT ![i + 1] = v,     ![i + 2] = v + 1, ![i + 3] = v + 2,
                              ![i + 4] = v,     ![i + 5] = v + 3, ![i + 6] = v + 2],
                  i + 6, v + 2, iCount)
    ELSE idx

\* The prototype AddRegularPolygonRing2D builds.
RingPrototype(sides) ==
    LET iCount == 6 * sides
        vCount == 2 * sides
        idx    == RingLoop([j \in 1 .. iCount |-> 0], 0, 0, iCount)
    IN  ShapePrototype(vCount, iCount,
            [idx EXCEPT ![(iCount - 2) + 1] = 1, ![(iCount - 1) + 1] = 0])

AddRegularPolygonRing2D(batchID, center, sides, z, ok, base, fail) ==
    LET dErr  == NonError("[PolyApp] AddRegularPolygonRing2D():")
        proto == RingPrototype(sides)
        alloc == AllocateShapeInBatch(batchID, proto, ok, base)
        u     == UpdateRegularPolygonRing2D(alloc.shape, center, sides, z, fail)
    IN  IF alloc.err.IsErr
        THEN [log |-> <<AllocCall(batchID, proto, alloc)>>,
              shape |-> alloc.shape, err |-> alloc.err]
        ELSE [log |-> <<AllocCall(batchID, proto, alloc)>> \o u.log,
              shape |-> alloc.shape, err |-> alloc.err]

\* AddQuad2D that fills the shape with normals of the opposite sign.
AddQuad2DOtherNorm(batchID, z, ok, base, fail) ==
    LET dErr  == NonError("[PolyApp] AddQuad2D():")
        proto == ShapePrototype(4, 6, <<0, 1, 2, 2, 3, 0>>)
        alloc == AllocateShapeInBatch(batchID, proto, ok, base)
        u     == UpdateQuad2D(alloc.shape, 0 - z, fail)
    IN  IF alloc.err.IsErr
        THEN [log |-> <<AllocCall(batchID, proto, alloc)>>,
              shape |-> alloc.shape, err |-> AddChildDeepError(dErr, alloc.err)]
        ELSE [log |-> <<AllocCall(batchID, proto, alloc)>> \o u.log,
              shape |-> alloc.shape, err |-> AddChildDeepError(dErr, u.err)]

\* AddQuad2D that returns its own, childless result when the allocation fails.
AddQuad2DDropAllocError(batchID, z, ok, base, fail) ==
    LET dErr  == NonError("[PolyApp] AddQuad2D():")
        proto == ShapePrototype(4, 6, <<0, 1, 2, 2, 3, 0>>)
        alloc == AllocateShapeInBatch(batchID, proto, ok, base)
        u     == UpdateQuad2D(alloc.shape, z, fail)
    IN  IF alloc.err.IsErr
        THEN [log |-> <<AllocCall(batchID, proto, alloc)>>,
              shape |-> alloc.shape, err |-> dErr]
        ELSE [log |-> <<AllocCall(batchID, proto, alloc)>> \o u.log,
              shape |-> alloc.shape, err |-> AddChildDeepError(dErr, u.err)]

AddQuad2D(batchID, z, ok, base, fail) ==
    LET dErr  == NonError("[PolyApp] AddQuad2D():")
        proto == ShapePrototype(4, 6, <<0, 1, 2, 2, 3, 0>>)
        alloc == AllocateShapeInBatch(batchID, proto, ok, base)
        u     == UpdateQuad2D(alloc.shape, z, fail)
    IN  IF alloc.err.IsErr
        THEN [log |-> <<AllocCall(batchID, proto, alloc)>>,
              shape |-> alloc.shape, err |-> AddChildDeepError(dErr, alloc.err)]
        ELSE [log |-> <<AllocCall(batchID, proto, alloc)>> \o u.log,
              shape |-> alloc.shape, err |-> AddChildDeepError(dErr, u.err)]

AddQuadOutline2D(batchID, z, ok, base, fail) ==
    LET dErr  == NonError("[PolyApp] AddQuadOutline2D():")
        proto == ShapePrototype(8, 24,
                     <<0, 1, 2, 1, 3, 2, 2, 3, 4, 3, 5, 4,
                       4, 5, 6, 5, 7, 6, 6, 7, 0, 7, 1, 0>>)
        alloc == AllocateShapeInBatch(batchID, proto, ok, base)
        u     == UpdateQuadOutline2D(alloc.shape, z, fail)
    IN  IF alloc.err.IsErr
        THEN [log |-> <<AllocCall(batchID, proto, alloc)>>,
              shape |-> alloc.shape, err |-> AddChildDeepError(dErr, alloc.err)]
        ELSE [log |-> <<AllocCall(batchID, proto, alloc)>> \o u.log,
              shape |-> alloc.shape, err |-> AddChildDeepError(dErr, u.err)]

(***************************************************************************)
(* The shape builders as a state machine: gcall is the call being made,    *)
(* one step is one whole Add or Update call, glog is the sequence of       *)
(* backend calls it made and gret what it returned.                        *)
(***************************************************************************)
GfxKinds ==
    {"Line2D", "Triangle2D", "RegularPolygon2D", "RegularPolygonRing2D",
     "Quad2D", "QuadOutline2D"}

\* The sides arguments tried for a kind (0 for the kinds that take none).
SidesOf(kind) ==
    IF kind \in {"RegularPolygon2D", "RegularPolygonRing2D"}
    THEN 1 .. MaxSides
    ELSE {0}

\* The vertex and index counts the builders of a kind require of a handle.
VertsOf(kind, sides) ==
    CASE kind = "Line2D"               -> 4
      [] kind = "Triangle2D"           -> 3
      [] kind = "RegularPolygon2D"     -> sides + 1
      [] kind = "RegularPolygonRing2D" -> sides * 2
      [] kind = "Quad2D"               -> 4
      [] kind = "QuadOutline2D"        -> 8

IdxsOf(kind, sides) ==
    CASE kind = "Line2D"               -> 6
      [] kind = "Triangle2D"           -> 3
      [] kind = "RegularPolygon2D"     -> sides * 3
      [] kind = "RegularPolygonRing2D" -> sides * 6
      [] kind = "Quad2D"               -> 6
      [] kind = "QuadOutline2D"        -> 24

\* The handles a caller passes to an Update of counts v and i: each count
\* right or off by one with zones as long as the counts, and the right
\* counts with each zone as long as its count or one longer.
Handles(v, i) ==
    {BatchShape(0, BufferZone(0, ic), BufferZone(0, vc), ic, vc) :
        vc \in {v - 1, v, v + 1}, ic \in {i - 1, i, i + 1}}
    \cup {BatchShape(0, BufferZone(0, i + di), BufferZone(0, v + dv), i, v) :
        dv \in {0, 1}, di \in {0, 1}}

\* The sets of vertex numbers whose write the backend fails: at most two
\* of the n vertices.
FailSets(n) == {{}} \cup {{a, b} : a \in 0 .. n - 1, b \in 0 .. n - 1}

\* The backend's handedness answers, XRightYUpZAway()[2].
ZAways == {0 - 1, 1}

UpdateShape(kind, shape, sides, z, fail) ==
    CASE kind = "Line2D" ->
            UpdateLine2D(shape, CallerVertex("a"), CallerVertex("b"), z, fail)
      [] kind = "Triangle2D" ->
            UpdateTriangle2D(shape, CallerVertex("a"), CallerVertex("b"),
                             CallerVertex("c"), fail)
      [] kind = "RegularPolygon2D" ->
            UpdateRegularPolygon2D(shape, CallerVertex("center"), sides, z, fail)
      [] kind = "RegularPolygonRing2D" ->
            UpdateRegularPolygonRing2D(shape, CallerVertex("center"), sides, z, fail)
      [] kind = "Quad2D" -> UpdateQuad2D(shape, z, fail)
      [] kind = "QuadOutline2D" -> UpdateQuadOutline2D(shape, z, fail)

AddShape(kind, batchID, sides, z, ok, base, fail) ==
    CASE kind = "Line2D" ->
            AddLine2D(batchID, CallerVertex("a"), CallerVertex("b"), z, ok, base, fail)
      [] kind = "Triangle2D" ->
            AddTriangle2D(batchID, CallerVertex("a"), CallerVertex("b"),
                          CallerVertex("c"), z, ok, base, fail)
      [] kind = "RegularPolygon2D" ->
            AddRegularPolygon2D(batchID, CallerVertex("center"), sides, z, ok, base, fail)
      [] kind = "RegularPolygonRing2D" ->
            AddRegularPolygonRing2D(batchID, CallerVertex("center"), sides, z, ok, base, fail)
      [] kind = "Quad2D" -> AddQuad2D(batchID, z, ok, base, fail)
      [] kind = "QuadOutline2D" -> AddQuadOutline2D(batchID, z, ok, base, fail)

\* One call is about to be made: an Update of some kind and sides with a
\* handle of Handles, or an Add whose allocation succeeds at one of two
\* places of the batch or fails; each with some handedness of the backend and
\* some set of failing writes.
InitGfx ==
    /\ list = <<BufferZone(0, BufSize)>>
    /\ prev = list
    /\ op = NoOp
    /\ acquired = {}
    /\ ins = <<>>
    /\ FlagsIdle
    /\ \E kind \in GfxKinds : \E sides \in SidesOf(kind) :
         \E z \in ZAways : \E fail \in FailSets(VertsOf(kind, sides)) :
           \/ \E shape \in Handles(VertsOf(kind, sides), IdxsOf(kind, sides)) :
                gcall = [name |-> "Update", kind |-> kind, sides |-> sides,
                         shape |-> shape, z |-> z, fail |-> fail,
                         ok |-> TRUE, base |-> 0, done |-> FALSE]
           \/ \E ok \in BOOLEAN : \E base \in {0, 2} :
                gcall = [name |-> "Add", kind |-> kind, sides |-> sides,
                         shape |-> ZeroShape, z |-> z, fail |-> fail,
                         ok |-> ok, base |-> base, done |-> FALSE]
    /\ glog = <<>>
    /\ gret = NoRet

Update ==
    /\ gcall.name = "Update"
    /\ ~gcall.done
    /\ LET r == UpdateShape(gcall.kind, gcall.shape, gcall.sides, gcall.z, gcall.fail)
       IN  /\ glog' = r.log
           /\ gret' = [name |-> "Update", shape |-> gcall.shape, err |-> r.err]
    /\ gcall' = [gcall EXCEPT !.done = TRUE]
    /\ UNCHANGED <<list, prev, op, acquired, ins, vf, layout, vf2, same>>

Add ==
    /\ gcall.name = "Add"
    /\ ~gcall.done
    /\ LET r == AddShape(gcall.kind, 0, gcall.sides, gcall.z, gcall.ok,
                         gcall.base, gcall.fail)
       IN  /\ glog' = r.log
           /\ gret' = [name |-> "Add", shape |-> r.shape, err |-> r.err]
    /\ gcall' = [gcall EXCEPT !.done = TRUE]
    /\ UNCHANGED <<list, prev, op, acquired, ins, vf, layout, vf2, same>>

\* The Update builder of the kind just added, called on the handle the Add
\* returned, with the arguments the Add was given.
UpdateAdded ==
    /\ gcall.name = "Add"
    /\ gcall.done
    /\ ~glog[1].err.IsErr
    /\ LET r == UpdateShape(gcall.kind, gret.shape, gcall.sides, gcall.z, gcall.fail)
       IN  /\ glog' = glog \o r.log
           /\ gret' = [name |-> "Update", shape |-> gret.shape, err |-> r.err]
    /\ gcall' = [gcall EXCEPT !.name = "AddUpdate"]
    /\ UNCHANGED <<list, prev, op, acquired, ins, vf, layout, vf2, same>>

NextGfx ==
    \/ Update
    \/ Add
    \/ UpdateAdded

SpecGfx == InitGfx /\ [][NextGfx]_vars

(***************************************************************************)
(* Helpers of the properties.                                              *)
(***************************************************************************)
\* The zones of non-zero length along the chain l.
NonEmptyZones(l) == {l[i] : i \in {j \in 1 .. Len(l) : ZoneLen(l[j]) > 0}}

\* The zone from the smallest Start to the largest End of a set of zones.
Span(Z) ==
    BufferZone(CHOOSE s \in {z.Start : z \in Z} : \A z \in Z : s <= z.Start,
               CHOOSE e \in {z.End : z \in Z} : \A z \in Z : e >= z.End)

\* Some zone of the chain l can hold size.
Fits(l, size) == \E i \in 1 .. Len(l) : ZoneLen(l[i]) >= size

\* Position of the first zone along the chain l that can hold size.
FirstFit(l, size) ==
    CHOOSE i \in 1 .. Len(l) :
        /\ ZoneLen(l[i]) >= size
        /\ \A j \in 1 .. (i - 1) : ZoneLen(l[j]) < size

(***************************************************************************)
(* Properties of the free list.                                            *)
(***************************************************************************)
\* C1: after any sequence of Insert and Aquire calls on a list that starts
\* as one free zone, every Insert releasing a zone disjoint from the zones
\* of the list, no two (non-empty) zones of the list are adjacent or
\* overlapping.
C1_MaximallyCoalesced ==
    \A i, j \in 1 .. Len(list) :
        (i # j /\ ZoneLen(list[i]) > 0 /\ ZoneLen(list[j]) > 0)
            => ~Touches(list[i], list[j])

\* C2: under the same conditions the (non-empty) zones appear along the
\* Next chain in strictly increasing order of Start.
C2_SortedByStart ==
    \A i, j \in 1 .. Len(list) :
        (i < j /\ ZoneLen(list[i]) > 0 /\ ZoneLen(list[j]) > 0)
            => list[i].Start < list[j].Start

\* C3: one Insert(zone) merges zone with every free zone it is adjacent to
\* or overlaps: the free zones after the call are the free zones that did
\* not touch zone, plus one zone spanning zone and all the zones it touched.
C3_InsertMergesAllNeighbours ==
    op.name = "Insert" =>
        LET T == {p \in NonEmptyZones(prev) : Touches(p, op.zone)}
        IN  NonEmptyZones(list) =
                (NonEmptyZones(prev) \ T) \cup {Span(T \cup {op.zone})}

\* C4 as stated: two adjacent or overlapping zones inserted in either order
\* into an empty free list leave exactly one zone in the list, from the
\* smaller Start to the larger End.
C4_PairLeavesOneNode ==
    Len(ins) = 2 => list = <<Span({ins[1], ins[2]})>>

\* C4 amended: the list then holds exactly one non-empty zone, from the
\* smaller Start to the larger End; the only other node there can be is the
\* zero-length head [0,0), which stays exactly when neither zone starts at 0.
C4_PairLeavesOneZone ==
    Len(ins) = 2 =>
        LET span == Span({ins[1], ins[2]})
        IN  IF span.Start = 0
            THEN list = <<span>>
            ELSE list = <<ZeroZone, span>>

\* C4 witness: two adjacent zones, the higher one inserted first, have been
\* merged behind the zero-length head.
C4_Witness ==
    /\ Len(ins) = 2
    /\ ins[2].End = ins[1].Start
    /\ ins[2].Start > 0
    /\ list = <<ZeroZone, BufferZone(ins[2].Start, ins[1].End)>>

\* C5: Aquire(size) is first-fit in list order: when some zone has
\* Len >= size it returns [s, s+size), s the Start of the first such zone
\* along the chain; that zone's Start becomes s+size, its End is unchanged,
\* and every other zone is unchanged.
C5_AquireFirstFit ==
    (op.name = "Aquire" /\ Fits(prev, op.size)) =>
        LET f  == FirstFit(prev, op.size)
            s  == prev[f].Start
            l1 == [prev EXCEPT ![f] = BufferZone(s + op.size, prev[f].End)]
        IN  /\ op.result = BufferZone(s, s + op.size)
            /\ list = l1 \/ list = Unlink(l1, f)

\* C5 witness: an Aquire skipped the head and a second node that were too
\* small and carved a non-empty zone from the third node.
C5_Witness ==
    /\ op.name = "Aquire"
    /\ op.size > 0
    /\ Len(prev) >= 3
    /\ Fits(prev, op.size)
    /\ FirstFit(prev, op.size) = 3
    /\ ZoneLen(prev[3]) > op.size

\* C6: Aquire(size) returns the zero zone when no zone has Len >= size and
\* then leaves the list unchanged; for size >= 1 a zero-length result is
\* returned only in that case.
C6_AquireExhausted ==
    op.name = "Aquire" =>
        /\ ~Fits(prev, op.size) => (op.result = ZeroZone /\ list = prev)
        /\ (op.size >= 1 /\ ZoneLen(op.result) = 0) => ~Fits(prev, op.size)

\* C6 witness: an Aquire failed on a list of several non-empty zones, each
\* too small for the request.
C6_Witness ==
    /\ op.name = "Aquire"
    /\ op.size >= 1
    /\ op.result = ZeroZone
    /\ Cardinality(NonEmptyZones(prev)) >= 2
    /\ list = prev

\* C7: a non-empty zone returned by Aquire overlaps no non-empty zone
\* returned by an earlier Aquire since the last Insert.
C7_AquiredZonesDisjoint ==
    [][(op'.name = "Aquire" /\ ZoneLen(op'.result) > 0)
          => \A z \in acquired : ~Overlaps(z, op'.result)]_vars

\* C7 witness: three zones were acquired in a row, not all from one node.
C7_Witness ==
    /\ Cardinality(acquired) >= 3
    /\ \E a, b \in acquired : a.End < b.Start
    /\ op.name = "Aquire"

\* C8: when Aquire reduces the zone it carves from to length 0, that zone is
\* unlinked if and only if it is not the head; the head stays in the list
\* at length 0; no other node is unlinked.
C8_UnlinkOnlyNonHead ==
    (op.name = "Aquire" /\ Fits(prev, op.size)) =>
        LET f  == FirstFit(prev, op.size)
            l1 == [prev EXCEPT ![f] = BufferZone(prev[f].Start + op.size, prev[f].End)]
        IN  IF ZoneLen(prev[f]) = op.size /\ f > 1
            THEN list = Unlink(l1, f)
            ELSE list = l1

\* C8 witness: an Aquire emptied a node between two others and unlinked it.
C8_Witness ==
    /\ op.name = "Aquire"
    /\ op.size > 0
    /\ Len(prev) >= 3
    /\ Fits(prev, op.size)
    /\ FirstFit(prev, op.size) = 2
    /\ ZoneLen(prev[2]) = op.size
    /\ Len(list) = Len(prev) - 1

(***************************************************************************)
(* Properties of the vertex layout.                                        *)
(***************************************************************************)
\* C9: for every VertexFlags value, Stride equals PositionSize + NormalSize
\* + UVSize + ColorSize + ExSize.
C9_StrideIsSumOfSizes ==
    layout.done =>
        layout.Stride = layout.PositionSize + layout.NormalSize + layout.UVSize
                            + layout.ColorSize + layout.ExSize

\* C9 witness: the layout of Pos3D | HasTex | Col32 | Norms, stride 36.
C9_Witness ==
    /\ layout.done
    /\ vf = BitOr(Pos3D, BitOr(HasTex, BitOr(Col32, Norms)))
    /\ layout.Stride = 36

\* C10: for every VertexFlags value the offsets are prefix sums in the order
\* Position, Normal, UV, Color, Extra, and ExOffset + ExSize = Stride.
C10_OffsetsArePrefixSums ==
    layout.done =>
        /\ layout.PositionOffset = 0
        /\ layout.NormalOffset = layout.PositionSize
        /\ layout.UVOffset = layout.NormalOffset + layout.NormalSize
        /\ layout.ColorOffset = layout.UVOffset + layout.UVSize
        /\ layout.ExOffset = layout.ColorOffset + layout.ColorSize
        /\ layout.ExOffset + layout.ExSize = layout.Stride

\* C10 witness: a layout in which all five attributes are present.
C10_Witness ==
    /\ layout.done
    /\ layout.NormalSize > 0
    /\ layout.UVSize > 0
    /\ layout.ColorSize > 0
    /\ layout.ExSize > 0
    /\ layout.ExOffset = 12 + 12 + 8 + 16

\* The bit of weight w (a power of 2) is set in f.
BitSet(f, w) == (f \div w) % 2 = 1

\* C11: PositionSize is 12 when the Pos3D bit is set and 8 otherwise;
\* NormalSize equals PositionSize when the Norms bit is set and 0 otherwise;
\* UVSize is 8 when the HasTex bit is set and 0 otherwise; the flags
\* Pos3D | HasTex | Col32 | Norms have stride 12+12+8+4+0 = 36.
C11_PositionNormalUVSizes ==
    layout.done =>
        /\ layout.PositionSize = IF BitSet(vf, 1) THEN 12 ELSE 8
        /\ layout.NormalSize = IF BitSet(vf, 16384) THEN layout.PositionSize ELSE 0
        /\ layout.UVSize = IF BitSet(vf, 4) THEN 8 ELSE 0
        /\ vf = 1 + 4 + 32 + 16384 =>
              /\ layout.ColorSize = 4
              /\ layout.ExSize = 0
              /\ layout.Stride = 36

\* C11 witness: a 2D layout with normals and texture coordinates.
C11_Witness ==
    /\ layout.done
    /\ ~BitSet(vf, 1)
    /\ layout.PositionSize = 8
    /\ layout.NormalSize = 8
    /\ layout.UVSize = 8

\* Size of each of the 16 codes of the colour field (flags & ColMask) / 8:
\* NoCol, Col8, Col16, Col24, Col32, Col48, Col64, ColF, ColFA, and the
\* seven reserved codes.
ColorSizeOfCode == <<0, 1, 2, 3, 4, 6, 8, 12, 16, 0, 0, 0, 0, 0, 0, 0>>

\* C12: ColorSize depends only on flags & ColMask and is one of
\* {0,1,2,3,4,6,8,12,16}: NoCol 0, Col8 1, Col16 2, Col24 3, Col32 4,
\* Col48 6, Col64 8, ColF 12, ColFA 16, and every reserved code (72 to 120)
\* has one fixed size for all the flags that carry it.
C12_ColorSizeByCode ==
    layout.done =>
        /\ layout.ColorSize = ColorSizeOfCode[((vf \div 8) % 16) + 1]
        /\ layout.ColorSize \in {0, 1, 2, 3, 4, 6, 8, 12, 16}

\* C12 witness: a reserved colour code together with other fields set.
C12_Witness ==
    /\ layout.done
    /\ (vf \div 8) % 16 = 13
    /\ BitSet(vf, 1) /\ BitSet(vf, 1024) /\ BitSet(vf, 32768)
    /\ layout.ColorSize = 0

\* Number of blocks of each of the 8 codes of the extra-data field
\* (flags & ExMask) / 128: NoEx, Ex32, Ex64, Ex96, Ex128, Ex192, Ex224, Ex256.
ExBlocksOfCode == <<0, 1, 2, 3, 4, 6, 7, 8>>

\* The flags values that have only extra-data bits set.
ExCodes == {Ex32 * k : k \in 0 .. 7}

\* C13 as stated: ExSize is 4 bytes times the number of blocks selected by
\* flags & ExMask, and every block count from 0 to 8 is selectable.
C13_EveryBlockCountSelectable ==
    layout.done =>
        /\ layout.ExSize = 4 * ExBlocksOfCode[((vf \div 128) % 8) + 1]
        /\ \A n \in 0 .. 8 : \E f \in AllFlags : ExSize(f) = 4 * n

\* C13 amended: ExSize is 4 bytes times the number of blocks selected by
\* flags & ExMask; the block counts 0, 1, 2, 3, 4, 6, 7 and 8 are selectable
\* and 5 is not.
C13_ExSizeByCode ==
    layout.done =>
        /\ layout.ExSize = 4 * ExBlocksOfCode[((vf \div 128) % 8) + 1]
        /\ layout.ExSize # 4 * 5
        /\ \A n \in {0, 1, 2, 3, 4, 6, 7, 8} : \E f \in ExCodes : ExSize(f) = 4 * n

\* C13 witness: the code after Ex128 selects 6 blocks, 24 bytes.
C13_Witness ==
    /\ layout.done
    /\ (vf \div 128) % 8 = 5
    /\ layout.ExSize = 24

(***************************************************************************)
(* Properties of SameAttributes.                                           *)
(***************************************************************************)
\* C14: SameAttributes is reflexive and symmetric, and its result does not
\* change when the draw-mode or camera bits of either argument are changed.
C14_SameAttributesRelation ==
    same.done =>
        /\ same.aa
        /\ same.bb
        /\ same.ab = same.ba
        /\ \A x \in UniformCodes :
              /\ same.aChanged[x] = same.ab
              /\ same.bChanged[x] = same.ab

\* C14 witness: two values that differ in draw-mode and camera bits only
\* were found to have the same attributes.
C14_Witness ==
    /\ same.done
    /\ vf # vf2
    /\ BitXor(vf, vf2) = DrawMask + CamMask
    /\ same.ab

\* The positions in glog of the UpdateVertexInShape calls.
VertexWrites == {k \in 1 .. Len(glog) : glog[k].fn = "UpdateVertexInShape"}

\* The handle of the last Update call has a count that is not its kind's.
DimensionMismatch ==
    \/ gcall.shape.VertexCount # VertsOf(gcall.kind, gcall.sides)
    \/ gcall.shape.IndexCount # IdxsOf(gcall.kind, gcall.sides)

\* C15: an Update<Shape> called with a handle whose VertexCount or IndexCount
\* is not the count of its shape kind returns an error and makes no
\* UpdateVertexInShape call.
C15_MismatchRejectedWithoutWrites ==
    (gcall.name = "Update" /\ gcall.done /\ DimensionMismatch)
        => (gret.err.IsErr /\ VertexWrites = {})

\* An Update of a line was rejected although only the index count was wrong.
C15_Witness ==
    /\ gcall.name = "Update"
    /\ gcall.done
    /\ gcall.kind = "Line2D"
    /\ gcall.shape.VertexCount = 4
    /\ gcall.shape.IndexCount = 7
    /\ gret.err.IsErr
    /\ glog = <<>>

\* A zone of the handle of the last Update call is not as long as its count.
ZoneLengthMismatch ==
    \/ VertLen(gcall.shape) # gcall.shape.VertexCount
    \/ IdxLen(gcall.shape) # gcall.shape.IndexCount

\* C16: an Update<Shape> called with a handle whose counts are those of the
\* shape kind but whose VertexZone or IndexZone length differs from its count
\* returns an error and makes no UpdateVertexInShape call.
C16_ZoneLengthsValidated ==
    (gcall.name = "Update" /\ gcall.done /\ ~DimensionMismatch /\ ZoneLengthMismatch)
        => (gret.err.IsErr /\ VertexWrites = {})

\* The positions in glog of the AllocateShapeInBatch calls.
AllocCalls == {k \in 1 .. Len(glog) : glog[k].fn = "AllocateShapeInBatch"}

\* C17: an Add<Shape> calls AllocateShapeInBatch exactly once and before any
\* UpdateVertexInShape call; when the allocation succeeds every vertex of the
\* shape is written to the returned handle, and when it fails no vertex is
\* written and the Add returns an error.
C17_AddAllocatesOnceThenUpdates ==
    (gcall.name = "Add" /\ gcall.done)
        => /\ AllocCalls = {1}
           /\ gret.shape = glog[1].shape
           /\ \A k \in VertexWrites : glog[k].shape = glog[1].shape
           /\ glog[1].err.IsErr => (VertexWrites = {} /\ gret.err.IsErr)
           /\ ~glog[1].err.IsErr =>
                 /\ Cardinality(VertexWrites) = VertsOf(gcall.kind, gcall.sides)
                 /\ {glog[k].vertNumber : k \in VertexWrites}
                        = 0 .. VertsOf(gcall.kind, gcall.sides) - 1

\* An AddQuad2D whose allocation failed: one backend call, an error returned.
C17_Witness ==
    /\ gcall.name = "Add"
    /\ gcall.done
    /\ gcall.kind = "Quad2D"
    /\ ~gcall.ok
    /\ Len(glog) = 1
    /\ glog[1].err = BackendAllocError
    /\ gret.err.IsErr

IsError(d) == d.IsErr

\* C18: an Update<Shape> whose dimensions match writes every vertex of the
\* shape whatever writes fail, and returns one DeepError holding the error of
\* every failing write, which is an error exactly when some write failed.
C18_UpdateAccumulatesEveryFailure ==
    (gcall.name = "Update" /\ gcall.done /\ ~DimensionMismatch)
        => /\ Len(glog) = VertsOf(gcall.kind, gcall.sides)
           /\ {glog[k].vertNumber : k \in VertexWrites}
                  = 0 .. VertsOf(gcall.kind, gcall.sides) - 1
           /\ gret.err.Children
                  = SelectSeq([k \in 1 .. Len(glog) |-> glog[k].err], IsError)
           /\ \A n \in gcall.fail :
                  \E c \in 1 .. Len(gret.err.Children) :
                      gret.err.Children[c] = BackendWriteError(n)
           /\ gret.err.IsErr <=> (gcall.fail # {})

\* An UpdateQuad2D whose writes of vertices 0 and 2 failed: all four vertices
\* were written and both errors are in the result.
C18_Witness ==
    /\ gcall.name = "Update"
    /\ gcall.done
    /\ gcall.kind = "Quad2D"
    /\ gcall.fail = {0, 2}
    /\ Len(glog) = 4
    /\ glog[4].vertNumber = 3
    /\ gret.err.IsErr
    /\ gret.err.Children = <<BackendWriteError(0), BackendWriteError(2)>>

\* C19: the prototype an Add<Shape> passes to AllocateShapeInBatch has the
\* vertex and index counts of its shape kind (line 4/6, triangle 3/3, polygon
\* sides+1 / 3*sides, ring 2*sides / 6*sides, quad 4/6, quad outline 8/24) and
\* an index list of IndexCount entries.
C19_PrototypeCounts ==
    (gcall.name = "Add" /\ gcall.done)
        => LET proto == glog[1].prototype
               v == CASE gcall.kind = "Line2D"               -> 4
                      [] gcall.kind = "Triangle2D"           -> 3
                      [] gcall.kind = "RegularPolygon2D"     -> gcall.sides + 1
                      [] gcall.kind = "RegularPolygonRing2D" -> 2 * gcall.sides
                      [] gcall.kind = "Quad2D"               -> 4
                      [] gcall.kind = "QuadOutline2D"        -> 8
               i == CASE gcall.kind = "Line2D"               -> 6
                      [] gcall.kind = "Triangle2D"           -> 3
                      [] gcall.kind = "RegularPolygon2D"     -> 3 * gcall.sides
                      [] gcall.kind = "RegularPolygonRing2D" -> 6 * gcall.sides
                      [] gcall.kind = "Quad2D"               -> 6
                      [] gcall.kind = "QuadOutline2D"        -> 24
           IN  /\ proto.VertCount = v
               /\ proto.IndexCount = i
               /\ Len(proto.Indexes) = i

\* A polygon of 6 sides was added with a prototype of 7 vertices and 18
\* indexes.
C19_Witness ==
    /\ gcall.name = "Add"
    /\ gcall.done
    /\ gcall.kind = "RegularPolygon2D"
    /\ gcall.sides = 6
    /\ glog[1].prototype.VertCount = 7
    /\ glog[1].prototype.IndexCount = 18
    /\ Len(glog[1].prototype.Indexes) = 18

\* C20: the index list AddRegularPolygonRing2D builds has, for each segment
\* k < sides, six indexes taken only from the vertex pair (2k, 2k+1) and the
\* next pair modulo 2*sides, so that every index is less than 2*sides.
C20_RingIndexesClosed ==
    (gcall.name = "Add" /\ gcall.done /\ gcall.kind = "RegularPolygonRing2D")
        => LET idx == glog[1].prototype.Indexes
               n   == 2 * gcall.sides
           IN  /\ Len(idx) = 6 * gcall.sides
               /\ \A k \in 0 .. gcall.sides - 1 : \A j \in 1 .. 6 :
                      idx[6 * k + j] \in
                          {2 * k, 2 * k + 1, (2 * k + 2) % n, (2 * k + 3) % n}
               /\ \A j \in 1 .. Len(idx) : idx[j] < n

\* The corners of the two quads of an outline: ring 0 is quadInner, ring 1
\* quadOuter; corners A, B, C, D are numbered 0..3.
OutlineCorners ==
    {[Pos |-> <<"quadInner.A", 0>>, UV |-> <<"uvQuadInner.A", 0>>, ring |-> 0, corner |-> 0],
     [Pos |-> <<"quadInner.B", 0>>, UV |-> <<"uvQuadInner.B", 0>>, ring |-> 0, corner |-> 1],
     [Pos |-> <<"quadInner.C", 0>>, UV |-> <<"uvQuadInner.C", 0>>, ring |-> 0, corner |-> 2],
     [Pos |-> <<"quadInner.D", 0>>, UV |-> <<"uvQuadInner.D", 0>>, ring |-> 0, corner |-> 3],
     [Pos |-> <<"quadOuter.A", 0>>, UV |-> <<"uvQuadOuter.A", 0>>, ring |-> 1, corner |-> 0],
     [Pos |-> <<"quadOuter.B", 0>>, UV |-> <<"uvQuadOuter.B", 0>>, ring |-> 1, corner |-> 1],
     [Pos |-> <<"quadOuter.C", 0>>, UV |-> <<"uvQuadOuter.C", 0>>, ring |-> 1, corner |-> 2],
     [Pos |-> <<"quadOuter.D", 0>>, UV |-> <<"uvQuadOuter.D", 0>>, ring |-> 1, corner |-> 3]}

\* The positions in glog of the writes of corner c.
WritesOfCorner(c) ==
    {k \in VertexWrites : glog[k].vertex.Pos = c.Pos /\ glog[k].vertex.UV = c.UV}

\* The corners written at local index n.
CornersAt(n) ==
    {c \in OutlineCorners : \E k \in WritesOfCorner(c) : glog[k].vertNumber = n}

\* The index list of the quad outline prototype.
OutlineIndexes ==
    <<0, 1, 2, 1, 3, 2, 2, 3, 4, 3, 5, 4, 4, 5, 6, 5, 7, 6, 6, 7, 0, 7, 1, 0>>

\* C21: UpdateQuadOutline2D writes each of the four corners of quadInner and
\* of quadOuter (with the matching UV corner) to exactly one local index, and
\* each triangle of the prototype index list joins inner and outer corners of
\* one edge segment.
C21_OutlineWritesEveryCorner ==
    (gcall.name \in {"Add", "Update"} /\ gcall.done
        /\ gcall.kind = "QuadOutline2D" /\ VertexWrites # {})
        => /\ \A c \in OutlineCorners : Cardinality(WritesOfCorner(c)) = 1
           /\ \A t \in 0 .. 7 :
                LET cs == CornersAt(OutlineIndexes[3 * t + 1])
                              \cup CornersAt(OutlineIndexes[3 * t + 2])
                              \cup CornersAt(OutlineIndexes[3 * t + 3])
                IN  /\ {c.ring : c \in cs} = {0, 1}
                    /\ \E e \in 0 .. 3 :
                         {c.corner : c \in cs} \subseteq {e, (e + 1) % 4}

\* The vertices written at local index n by the writes at the positions K of
\* glog.
WrittenAt(K, n) == {glog[k].vertex : k \in {j \in K : glog[j].vertNumber = n}}

\* The corners of quad and uvQuad in the order A, B, C, D.
QuadCorners ==
    << [Pos |-> <<"quad.A", 0>>, UV |-> <<"uvQuad.A", 0>>],
       [Pos |-> <<"quad.B", 0>>, UV |-> <<"uvQuad.B", 0>>],
       [Pos |-> <<"quad.C", 0>>, UV |-> <<"uvQuad.C", 0>>],
       [Pos |-> <<"quad.D", 0>>, UV |-> <<"uvQuad.D", 0>>] >>

\* C22: UpdateQuad2D writes local indices 0, 1, 2, 3 with the positions of
\* corners A, B, C, D of quad and the UVs of corners A, B, C, D of uvQuad, all
\* with the given color and extra; the prototype of AddQuad2D has the index
\* list {0,1,2,2,3,0}.
C22_QuadCornersInOrder ==
    (gcall.name \in {"Add", "Update"} /\ gcall.done /\ gcall.kind = "Quad2D")
        => /\ VertexWrites # {} =>
                \A n \in 0 .. 3 :
                    /\ WrittenAt(VertexWrites, n) # {}
                    /\ \A v \in WrittenAt(VertexWrites, n) :
                         /\ v.Pos = QuadCorners[n + 1].Pos
                         /\ v.UV = QuadCorners[n + 1].UV
                         /\ v.Color = <<"color", 0>>
                         /\ v.Extra = <<"extra", 0>>
           /\ gcall.name = "Add" =>
                glog[1].prototype.Indexes = <<0, 1, 2, 2, 3, 0>>

\* An UpdateQuad2D that wrote corner C of quad and of uvQuad at index 2.
C22_Witness ==
    /\ gcall.name = "Update"
    /\ gcall.done
    /\ gcall.kind = "Quad2D"
    /\ Len(glog) = 4
    /\ glog[3].vertNumber = 2
    /\ glog[3].vertex.Pos = <<"quad.C", 0>>
    /\ glog[3].vertex.UV = <<"uvQuad.C", 0>>

\* The positions in glog of the writes of the Add and of the Update that
\* followed it: the Add's log is its allocation and one write for each vertex.
FirstCallWrites == {k \in VertexWrites : k <= 1 + VertsOf(gcall.kind, gcall.sides)}
SecondCallWrites == VertexWrites \ FirstCallWrites

\* C23: AddQuad2D followed by UpdateQuad2D on the returned handle with the
\* same arguments writes, at each local index 0..3, the vertex AddQuad2D
\* wrote there.
C23_AddThenUpdateQuadIdempotent ==
    (gcall.name = "AddUpdate" /\ gcall.kind = "Quad2D")
        => \A n \in 0 .. 3 :
              /\ Cardinality(WrittenAt(FirstCallWrites, n)) = 1
              /\ WrittenAt(SecondCallWrites, n) = WrittenAt(FirstCallWrites, n)
              /\ \A k \in VertexWrites : glog[k].shape = glog[1].shape

\* AddQuad2D then UpdateQuad2D: nine backend calls, the same vertex written
\* at index 0 by both.
C23_Witness ==
    /\ gcall.name = "AddUpdate"
    /\ gcall.kind = "Quad2D"
    /\ Len(glog) = 9
    /\ glog[2].vertNumber = 0
    /\ glog[6].vertNumber = 0
    /\ glog[2].vertex = glog[6].vertex
    /\ glog[6].vertex.Pos = <<"quad.A", 0>>

\* C24: every vertex a 2D Add<Shape> or Update<Shape> passes to
\* UpdateVertexInShape has Norm = (0, 0, -z), z being the third component of
\* XRightYUpZAway(), whatever Norm the caller's vertices had.
C24_EveryVertexHasFlatNorm ==
    (gcall.name \in {"Add", "Update"} /\ gcall.done)
        => \A k \in VertexWrites : glog[k].vertex.Norm = FlatNorm(gcall.z)

\* The tag of the Add builder of a kind.
AddTag(kind) ==
    CASE kind = "Line2D"               -> "[PolyApp] AddLine2D():"
      [] kind = "Triangle2D"           -> "[PolyApp] AddTriangle2D():"
      [] kind = "RegularPolygon2D"     -> "[PolyApp] AddRegularPolygon2D():"
      [] kind = "RegularPolygonRing2D" -> "[PolyApp] AddRegularPolygonRing2D():"
      [] kind = "Quad2D"               -> "[PolyApp] AddQuad2D():"
      [] kind = "QuadOutline2D"        -> "[PolyApp] AddQuadOutline2D():"

\* C25: when AllocateShapeInBatch fails, the DeepError an Add<Shape> returns
\* is tagged with the name of that Add and holds the backend's error as a
\* child; it is not the backend's error itself.
C25_AllocErrorWrappedWithOwnTag ==
    (gcall.name = "Add" /\ gcall.done /\ glog[1].err.IsErr)
        => /\ gret.err.IsErr
           /\ gret.err.Msg = AddTag(gcall.kind)
           /\ gret.err.Children = <<glog[1].err>>

\* The positions in glog of the writes the backend failed.
FailedWrites == {k \in VertexWrites : glog[k].err.IsErr}

\* C27: when the allocation of an Add<Shape> succeeds and at least one
\* UpdateVertexInShape call of its Update fails, the DeepError the Add returns
\* is an error.
C27_AddReportsWriteFailure ==
    (gcall.name = "Add" /\ gcall.done /\ ~glog[1].err.IsErr /\ FailedWrites # {})
        => gret.err.IsErr

\* C28: an Update<Shape> whose handle has the counts of its kind and whose
\* writes all succeed calls UpdateVertexInShape once for each local index
\* 0..VertexCount-1, in ascending order, with the handle it was given, and
\* returns a non-error.
C28_UpdateWritesEachIndexOnceAscending ==
    (gcall.name = "Update" /\ gcall.done /\ ~DimensionMismatch /\ gcall.fail = {})
        => /\ Len(glog) = gcall.shape.VertexCount
           /\ \A k \in 1 .. Len(glog) :
                /\ glog[k].fn = "UpdateVertexInShape"
                /\ glog[k].vertNumber = k - 1
                /\ glog[k].shape = gcall.shape
           /\ ~gret.err.IsErr

\* An UpdateRegularPolygon2D of 6 sides whose 7 writes all succeeded, the
\* last one at local index 6.
C28_Witness ==
    /\ gcall.name = "Update"
    /\ gcall.done
    /\ gcall.kind = "RegularPolygon2D"
    /\ gcall.sides = 6
    /\ gcall.fail = {}
    /\ Len(glog) = 7
    /\ glog[7].vertNumber = 6
    /\ ~gret.err.IsErr

\* Triangle t (1 .. Len(idx) \div 3) of an index list.
Triangle(idx, t) == <<idx[3 * t - 2], idx[3 * t - 1], idx[3 * t]>>

\* C29: the index list AddRegularPolygon2D builds is the fan (0, k, k+1) for
\* k = 1..sides-1 followed by the closing triangle (0, sides, 1): the centre
\* vertex 0 anchors every triangle, every ring vertex 1..sides is referenced
\* and every index is at most sides.
C29_PolygonIndexesAreClosedFan ==
    (gcall.name = "Add" /\ gcall.done /\ gcall.kind = "RegularPolygon2D")
        => LET idx == glog[1].prototype.Indexes
               n   == gcall.sides
           IN  /\ Len(idx) = 3 * n
               /\ \A k \in 1 .. n - 1 : Triangle(idx, k) = <<0, k, k + 1>>
               /\ Triangle(idx, n) = <<0, n, 1>>
               /\ \A v \in 1 .. n : \E j \in 1 .. Len(idx) : idx[j] = v
               /\ \A j \in 1 .. Len(idx) : idx[j] <= n

\* A polygon of 6 sides was added: six triangles, the last one (0, 6, 1).
C29_Witness ==
    /\ gcall.name = "Add"
    /\ gcall.done
    /\ gcall.kind = "RegularPolygon2D"
    /\ gcall.sides = 6
    /\ Len(glog[1].prototype.Indexes) = 18
    /\ Triangle(glog[1].prototype.Indexes, 5) = <<0, 5, 6>>
    /\ Triangle(glog[1].prototype.Indexes, 6) = <<0, 6, 1>>

\* The number of held zones and of nodes of the free list that cover buffer
\* index x.
HeldCover(x) == Cardinality({z \in acquired : x \in Cells(z)})
FreeCover(x) == Cardinality({i \in 1 .. Len(list) : x \in Cells(list[i])})

\* C26: from a free list holding [0, BufSize), under any interleaving of
\* Aquire(size >= 1) and of Insert of whole held zones, every buffer index
\* lies in exactly one held zone or in exactly one zone of the free list.
C26_HeldAndFreePartitionBuffer ==
    \A x \in 0 .. BufSize - 1 : HeldCover(x) + FreeCover(x) = 1

\* A zone was released while another is still held, and the free space is in
\* two separate nodes.
C26_Witness ==
    /\ op.name = "Insert"
    /\ acquired # {}
    /\ Cardinality({i \in 1 .. Len(list) : ZoneLen(list[i]) > 0}) >= 2
    /\ \A x \in 0 .. BufSize - 1 : HeldCover(x) + FreeCover(x) = 1

\* C30: two VertexFlags values a and b with a.SameAttributes(b) have the same
\* five attribute sizes, the same five offsets and the same Stride, whatever
\* their draw-mode, camera and unused bits are.
C30_LayoutIgnoresUniformBits ==
    (layout.done /\ layout.same) => layout.a = layout.b

\* Two values that differ in draw-mode, camera and unused bits were found to
\* have the same attributes and the same layout of 3D positions with normals.
C30_Witness ==
    /\ layout.done
    /\ layout.same
    /\ BitAnd(BitXor(vf, vf2), DrawMask) # 0
    /\ BitAnd(BitXor(vf, vf2), CamMask) # 0
    /\ BitAnd(BitXor(vf, vf2), 32768) # 0
    /\ layout.a.PositionSize = 12
    /\ layout.a.NormalSize = 12
    /\ layout.b.Stride = layout.a.Stride

====
